---- MODULE Spec2Model ----
(***************************************************************************)
(* Model of applyJsxTreeLayout (src/entities/RenderGraphSvg.tsx), the tree  *)
(* layout transformer that repositions the jsx-kind nodes of a GraphLayout, *)
(* re-snapshots edge endpoints and grows the canvas.                        *)
(*                                                                          *)
(* The two recursive closures dfs and assignPosition are modelled as a      *)
(* stack of pending calls: the head of `stack` is the call that runs next,  *)
(* and a call replaces itself by the calls for its children, in the order   *)
(* of the `for (const child of children)` loop.                             *)
(*                                                                          *)
(* Node ids are non-empty strings, so the truthiness tests `!parentId` and  *)
(* `fromNodeId &&` of the source are tests for an absent value.             *)
(***************************************************************************)
EXTENDS Integers, Sequences, FiniteSets, TLC

(* ------------------------------ bounds --------------------------------- *)
MaxNodes == 3
MaxEdges == 1

(* ------------------------- program constants --------------------------- *)
depthGapX == 160
baseY == 80
rowGapY == 40
Margin == 40

(* --------------------------- input layouts ----------------------------- *)
Undefined == "undefined"
MissingId == "gone"

Id(i) == "n" \o ToString(i)

\* meta.jsxParentId of a jsx node: absent, the id of a node of the layout
\* (jsx or not, itself included), or an id no node of the layout has.
NodeChoices(n) ==
    {<<"state", Undefined>>} \cup
    {<<"jsx", p>> : p \in {Undefined, MissingId} \cup {Id(j) : j \in 1..n}}

MkNode(i, c) ==
    [id |-> Id(i), kind |-> c[1], jsxParentId |-> c[2],
     x |-> 50 * i, y |-> 30 * i, width |-> 80, height |-> 40]

NodeSeq(n, ch) == [i \in 1..n |-> MkNode(i, ch[i])]

\* What an edge endpoint may reference: nothing, a node, a node that is gone.
Refs(n) == <<Undefined>> \o [j \in 1..n |-> Id(j)] \o <<MissingId>>

\* Edge k runs from reference k to the next reference; the cached snapshots
\* are anchors on the node's border, not the node's centre.
MkEdge(n, k) ==
    [from |-> [nodeId |-> Refs(n)[k], x |-> 7 + k, y |-> 9],
     to   |-> [nodeId |-> Refs(n)[(k % (n + 2)) + 1], x |-> 11 + k, y |-> 13]]

\* The m edges that start at edge k.
EdgeSeq(n, k, m) == [j \in 1..m |-> MkEdge(n, ((k + j - 2) % (n + 2)) + 1)]

Canvases ==
    {[width |-> 200, height |-> 150, colX |-> [jsx |-> 100]],
     [width |-> 900, height |-> 600, colX |-> [jsx |-> 400]]}

MkLayout(ns, es, c) ==
    [nodes |-> ns, edges |-> es, width |-> c.width, height |-> c.height,
     colX |-> c.colX]

EmptyLayout ==
    [nodes |-> <<>>, edges |-> <<>>, width |-> 0, height |-> 0,
     colX |-> [jsx |-> 0]]

(* ------------------------------ state ---------------------------------- *)
VARIABLES
    layout,             \* the argument of the running call
    pc,                 \* position in applyJsxTreeLayout
    stack,              \* pending dfs / assignPosition calls
    depthById,
    rowIndexByDepth,
    maxDepth,
    usedRowsPerDepth,
    newNodePositions,
    dfsOrder,           \* ids in the order dfs was entered
    assignOrder,        \* ids in the order assignPosition was entered
    out,                \* the returned layout
    first,              \* the layout returned by the first call
    round               \* 1: first call, 2: call on the first call's result

vars == <<layout, pc, stack, depthById, rowIndexByDepth, maxDepth,
          usedRowsPerDepth, newNodePositions, dfsOrder, assignOrder,
          out, first, round>>

EmptyMap == [k \in {} |-> 0]

MapGet(m, k, default) == IF k \in DOMAIN m THEN m[k] ELSE default

MapSet(m, k, v) == [j \in (DOMAIN m) \cup {k} |-> IF j = k THEN v ELSE m[j]]

RECURSIVE SeqMax(_, _)
SeqMax(s, floor) ==
    IF s = <<>> THEN floor
    ELSE SeqMax(Tail(s), IF Head(s) > floor THEN Head(s) ELSE floor)

(* --------------------------- family resolution ------------------------- *)
IsJsx(n) == n.kind = "jsx"

JsxNodes(l) == SelectSeq(l.nodes, IsJsx)

JsxIds(l) == {JsxNodes(l)[i].id : i \in DOMAIN JsxNodes(l)}

IsRootAlways(l, node) == TRUE

IsRootNoParentOnly(l, node) == node.jsxParentId = Undefined

IsRoot(l, node) ==
    \/ node.jsxParentId = Undefined
    \/ node.jsxParentId \notin JsxIds(l)

RootJsxNodes(l) == LET R(n) == IsRoot(l, n) IN SelectSeq(JsxNodes(l), R)

ChildrenReversed(l, node) ==
    LET C(child) == child.jsxParentId = node.id
        cs == SelectSeq(JsxNodes(l), C)
    IN [i \in 1..Len(cs) |-> cs[Len(cs) + 1 - i]]

Children(l, node) ==
    LET C(child) == child.jsxParentId = node.id
    IN SelectSeq(JsxNodes(l), C)

Frames(ns, depth) == [i \in 1..Len(ns) |-> [node |-> ns[i], depth |-> depth]]

(* --------------------------- coordinates ------------------------------- *)
BaseXCanvas(l) == l.width \div 2

BaseX(l) == l.colX.jsx

PositionX(base, depth, maxD) ==
    base - (maxD * depthGapX) \div 2 + depth * depthGapX

PositionYAfterIncrement(used) == baseY + (used + 1) * rowGapY

PositionY(used) == baseY + used * rowGapY

(* ----------------------- nodes, edges, canvas -------------------------- *)
NewNodes(nodes, positions) ==
    [i \in 1..Len(nodes) |->
        IF nodes[i].id \in DOMAIN positions
        THEN [nodes[i] EXCEPT !.x = positions[nodes[i].id].x,
                              !.y = positions[nodes[i].id].y]
        ELSE nodes[i]]

\* new Map filled in sequence order: the last node with an id wins.
NodeByIdAfter(newNodes) ==
    [k \in {newNodes[i].id : i \in 1..Len(newNodes)} |->
        LET last == CHOOSE i \in 1..Len(newNodes) :
                      /\ newNodes[i].id = k
                      /\ \A j \in 1..Len(newNodes) : newNodes[j].id = k => j <= i
        IN newNodes[last]]

NewEndpointSwapped(ep, byId) ==
    IF ep.nodeId # Undefined /\ ep.nodeId \in DOMAIN byId
    THEN [ep EXCEPT !.x = byId[ep.nodeId].y, !.y = byId[ep.nodeId].x]
    ELSE ep

NewEndpoint(ep, byId) ==
    IF ep.nodeId # Undefined /\ ep.nodeId \in DOMAIN byId
    THEN [ep EXCEPT !.x = byId[ep.nodeId].x, !.y = byId[ep.nodeId].y]
    ELSE ep

NewEdges(edges, byId) ==
    [i \in 1..Len(edges) |->
        [edges[i] EXCEPT !.from = NewEndpoint(edges[i].from, byId),
                         !.to = NewEndpoint(edges[i].to, byId)]]

MaxY(nodes, height) ==
    SeqMax([i \in 1..Len(nodes) |->
              nodes[i].y + nodes[i].height \div 2 + Margin], height)

MaxXFromZero(nodes, width) ==
    SeqMax([i \in 1..Len(nodes) |->
              nodes[i].x + nodes[i].width \div 2 + Margin], 0)

MaxX(nodes, width) ==
    SeqMax([i \in 1..Len(nodes) |->
              nodes[i].x + nodes[i].width \div 2 + Margin], width)

EarlyReturnRegrown(l) ==
    [l EXCEPT !.width = MaxX(l.nodes, l.width),
              !.height = MaxY(l.nodes, l.height)]

EarlyReturn(l) == l

(* ------------------------------ actions -------------------------------- *)
Init ==
    /\ \E n \in 0..MaxNodes :
         \E ch \in [1..n -> NodeChoices(n)] :
           \E k \in 1..(n + 2) :
             \E m \in 0..MaxEdges :
               \E c \in Canvases :
                 layout = MkLayout(NodeSeq(n, ch), EdgeSeq(n, k, m), c)
    /\ pc = "call"
    /\ stack = <<>>
    /\ depthById = EmptyMap
    /\ rowIndexByDepth = EmptyMap
    /\ maxDepth = 0
    /\ usedRowsPerDepth = EmptyMap
    /\ newNodePositions = EmptyMap
    /\ dfsOrder = <<>>
    /\ assignOrder = <<>>
    /\ out = EmptyLayout
    /\ first = EmptyLayout
    /\ round = 1

\* lines 31-34: no jsx node, the layout is returned as it is.
Passthrough ==
    /\ pc = "call"
    /\ Len(JsxNodes(layout)) = 0
    /\ out' = EarlyReturn(layout)
    /\ pc' = "done"
    /\ UNCHANGED <<layout, stack, depthById, rowIndexByDepth, maxDepth,
                   usedRowsPerDepth, newNodePositions, dfsOrder, assignOrder,
                   first, round>>

\* lines 36-57 and the loop header of 80-82: the roots are the first calls.
Resolve ==
    /\ pc = "call"
    /\ Len(JsxNodes(layout)) # 0
    /\ stack' = Frames(RootJsxNodes(layout), 0)
    /\ pc' = "dfs"
    /\ UNCHANGED <<layout, depthById, rowIndexByDepth, maxDepth,
                   usedRowsPerDepth, newNodePositions, dfsOrder, assignOrder,
                   out, first, round>>

\* lines 62-77: one call of dfs(node, depth).
DfsStep ==
    /\ pc = "dfs"
    /\ stack # <<>>
    /\ LET node == Head(stack).node
           depth == Head(stack).depth
           currentRow == MapGet(rowIndexByDepth, depth, 0)
       IN /\ depthById' = MapSet(depthById, node.id, depth)
          /\ rowIndexByDepth' = MapSet(rowIndexByDepth, depth, currentRow + 1)
          /\ dfsOrder' = Append(dfsOrder, node.id)
          /\ stack' = Frames(Children(layout, node), depth + 1) \o Tail(stack)
    /\ UNCHANGED <<layout, pc, maxDepth, usedRowsPerDepth, newNodePositions,
                   assignOrder, out, first, round>>

\* lines 84-100 and 127-129: maxDepth, then the roots again for the
\* position pass.
DfsDone ==
    /\ pc = "dfs"
    /\ stack = <<>>
    /\ maxDepth' = LET ids == DOMAIN depthById
                   IN IF ids = {} THEN 0
                      ELSE CHOOSE d \in {depthById[k] : k \in ids} \cup {0} :
                             \A k \in ids : depthById[k] <= d
    /\ usedRowsPerDepth' = EmptyMap
    /\ stack' = Frames(RootJsxNodes(layout), 0)
    /\ pc' = "assign"
    /\ UNCHANGED <<layout, depthById, rowIndexByDepth, newNodePositions,
                   dfsOrder, assignOrder, out, first, round>>

\* lines 102-124: one call of assignPosition(node, depth).
AssignStep ==
    /\ pc = "assign"
    /\ stack # <<>>
    /\ LET node == Head(stack).node
           depth == Head(stack).depth
           used == MapGet(usedRowsPerDepth, depth, 0)
       IN /\ usedRowsPerDepth' = MapSet(usedRowsPerDepth, depth, used + 1)
          /\ newNodePositions' =
                MapSet(newNodePositions, node.id,
                       [x |-> PositionX(BaseX(layout), depth, maxDepth),
                        y |-> PositionY(used)])
          /\ assignOrder' = Append(assignOrder, node.id)
          /\ stack' = Frames(Children(layout, node), depth + 1) \o Tail(stack)
    /\ UNCHANGED <<layout, pc, depthById, rowIndexByDepth, maxDepth,
                   dfsOrder, out, first, round>>

\* lines 132-201: new nodes, new edges, the grown canvas.
Finish ==
    /\ pc = "assign"
    /\ stack = <<>>
    /\ LET newNodes == NewNodes(layout.nodes, newNodePositions)
           newEdges == NewEdges(layout.edges, NodeByIdAfter(newNodes))
       IN out' = [nodes |-> newNodes,
                  edges |-> newEdges,
                  width |-> MaxX(newNodes, layout.width),
                  height |-> MaxY(newNodes, layout.height),
                  colX |-> layout.colX]
    /\ pc' = "done"
    /\ UNCHANGED <<layout, stack, depthById, rowIndexByDepth, maxDepth,
                   usedRowsPerDepth, newNodePositions, dfsOrder, assignOrder,
                   first, round>>

\* The transformer is called again on the layout it returned.
Reapply ==
    /\ pc = "done"
    /\ round = 1
    /\ first' = out
    /\ layout' = out
    /\ round' = 2
    /\ pc' = "call"
    /\ stack' = <<>>
    /\ depthById' = EmptyMap
    /\ rowIndexByDepth' = EmptyMap
    /\ maxDepth' = 0
    /\ usedRowsPerDepth' = EmptyMap
    /\ newNodePositions' = EmptyMap
    /\ dfsOrder' = <<>>
    /\ assignOrder' = <<>>
    /\ out' = EmptyLayout

Next ==
    \/ Passthrough
    \/ Resolve
    \/ DfsStep
    \/ DfsDone
    \/ AssignStep
    \/ Finish
    \/ Reapply

Spec == Init /\ [][Next]_vars

\* The traversal alone: layouts without edges, which neither pass reads.
TraversalInit == Init /\ layout.edges = <<>>

TraversalSpec == TraversalInit /\ [][Next]_vars

(* ------------------- vocabulary of the properties ---------------------- *)
Done == pc = "done"

HasJsx(l) == \E i \in 1..Len(l.nodes) : l.nodes[i].kind = "jsx"

JsxIdx(l) == {i \in 1..Len(l.nodes) : l.nodes[i].kind = "jsx"}

IdxOf(l, id) == CHOOSE i \in 1..Len(l.nodes) : l.nodes[i].id = id

\* A jsx node with no parent id, or whose parent id is no jsx node's id.
TreeRoot(l, i) ==
    \/ l.nodes[i].jsxParentId = Undefined
    \/ ~ \E j \in JsxIdx(l) : l.nodes[j].id = l.nodes[i].jsxParentId

\* Parent hops from jsx node i to its root; -1 when the parent links of i
\* never reach a root (i is on, or hangs below, a cycle).
RECURSIVE HopsWithin(_, _, _)
HopsWithin(l, i, fuel) ==
    IF TreeRoot(l, i) THEN 0
    ELSE IF fuel = 0 THEN -1
    ELSE LET h == HopsWithin(l, IdxOf(l, l.nodes[i].jsxParentId), fuel - 1)
         IN IF h = -1 THEN -1 ELSE h + 1

Hops(l, i) == HopsWithin(l, i, Len(l.nodes))

ForestShaped(l) == \A i \in JsxIdx(l) : Hops(l, i) # -1

\* The jsx nodes the traversal reaches from a root.
Placed(l) == {i \in JsxIdx(l) : Hops(l, i) # -1}

PlacedIds(l) == {l.nodes[i].id : i \in Placed(l)}

SetMax(S, floor) ==
    IF S = {} THEN floor
    ELSE LET m == CHOOSE a \in S : \A b \in S : b <= a
         IN IF m > floor THEN m ELSE floor

TreeDepth(l) == SetMax({Hops(l, i) : i \in Placed(l)}, 0)

NoRepeat(s) == \A a, b \in 1..Len(s) : s[a] = s[b] => a = b

PosIn(s, id) == CHOOSE k \in 1..Len(s) : s[k] = id

Endpoints(e) == <<e.from, e.to>>

(* ------------------------------- C1 ------------------------------------ *)
\* C1: a layout with no jsx node is returned unchanged: same nodes, same
\* edges with every endpoint x/y, same colX, width and height.
C1_PassthroughIdentity ==
    (Done /\ ~HasJsx(layout)) => out = layout

\* A layout without jsx nodes, with an edge that references a node, and in
\* which a node's right margin lies beyond the canvas, has been returned.
C1_Witness ==
    /\ Done
    /\ ~HasJsx(layout)
    /\ Len(layout.edges) > 0
    /\ layout.edges[1].from.nodeId = Id(1)
    /\ MaxX(layout.nodes, layout.width) > layout.width

(* ------------------------------- C2 ------------------------------------ *)
\* C2: with forest-shaped parent links every jsx node gets
\* x = colX.jsx - (D*160)/2 + d*160, d its parent hops to its root and D the
\* largest d; a jsx node with no parent id, or with a parent id that is no
\* jsx node's id, is a root (d = 0) and is repositioned like the others.
C2_DepthToX ==
    (Done /\ HasJsx(layout) /\ ForestShaped(layout)) =>
        /\ Len(out.nodes) = Len(layout.nodes)
        /\ \A i \in JsxIdx(layout) :
              out.nodes[i].x =
                 layout.colX.jsx - (TreeDepth(layout) * 160) \div 2
                                 + Hops(layout, i) * 160

\* A forest of depth at least 1 one of whose roots names a parent that is
\* not a jsx node of the layout.
C2_Witness ==
    /\ Done
    /\ round = 1
    /\ ForestShaped(layout)
    /\ TreeDepth(layout) >= 1
    /\ \E i \in JsxIdx(layout) :
          /\ layout.nodes[i].jsxParentId # Undefined
          /\ TreeRoot(layout, i)
          /\ out.nodes[i].x # layout.nodes[i].x

(* ------------------------------- C3 ------------------------------------ *)
\* C3: at every depth d the output y values of the jsx nodes at depth d are
\* exactly 80 + 40*k for k = 0 .. n_d - 1, each used by exactly one node.
C3_RowPacking ==
    (Done /\ HasJsx(layout)) =>
        \A d \in 0..TreeDepth(layout) :
            LET atD == {i \in Placed(layout) : Hops(layout, i) = d}
                ys == {out.nodes[i].y : i \in atD}
            IN /\ ys = {80 + 40 * k : k \in 0..(Cardinality(atD) - 1)}
               /\ Cardinality(ys) = Cardinality(atD)

\* Two jsx nodes at the same depth below the roots.
C3_Witness ==
    /\ Done
    /\ HasJsx(layout)
    /\ \E i, j \in Placed(layout) :
          /\ i # j
          /\ Hops(layout, i) = 1
          /\ Hops(layout, j) = 1

(* ------------------------------- C4 ------------------------------------ *)
\* C4: an edge endpoint that references a node the transformer did not
\* reposition (a non-jsx node), or that carries no node reference, keeps its
\* cached x/y. Stated for forest-shaped layouts, where the nodes that are not
\* repositioned are the non-jsx nodes.
C4_UntouchedEndpointsKept ==
    (Done /\ HasJsx(layout) /\ ForestShaped(layout)) =>
        \A e \in 1..Len(layout.edges) : \A side \in 1..2 :
            LET ep == Endpoints(layout.edges[e])[side]
            IN ep.nodeId \notin PlacedIds(layout) =>
                  /\ Endpoints(out.edges[e])[side].x = ep.x
                  /\ Endpoints(out.edges[e])[side].y = ep.y

(* ------------------------------- C5 ------------------------------------ *)
\* C5: an edge endpoint whose nodeId is the id of a repositioned jsx node has
\* that node's output x and y.
C5_EdgeConsistency ==
    (Done /\ HasJsx(layout)) =>
        \A e \in 1..Len(layout.edges) : \A side \in 1..2 :
            LET ep == Endpoints(layout.edges[e])[side]
            IN ep.nodeId \in PlacedIds(layout) =>
                  LET n == out.nodes[IdxOf(layout, ep.nodeId)]
                  IN /\ Endpoints(out.edges[e])[side].x = n.x
                     /\ Endpoints(out.edges[e])[side].y = n.y

\* An edge that leaves a repositioned jsx node, whose cached anchor was not
\* the node's new position.
C5_Witness ==
    /\ Done
    /\ round = 1
    /\ Len(layout.edges) > 0
    /\ layout.edges[1].from.nodeId \in PlacedIds(layout)
    /\ out.edges[1].from.x # layout.edges[1].from.x
    /\ out.edges[1].from.x # out.edges[1].from.y

(* ------------------------------- C6 ------------------------------------ *)
\* C6: with forest-shaped parent links every jsx node's output position
\* satisfies 0 <= x <= output width and 0 <= y <= output height.
C6_InsideCanvas ==
    (Done /\ HasJsx(layout) /\ ForestShaped(layout)) =>
        \A i \in JsxIdx(layout) :
            /\ 0 <= out.nodes[i].x
            /\ out.nodes[i].x <= out.width
            /\ 0 <= out.nodes[i].y
            /\ out.nodes[i].y <= out.height

(* ------------------------------- C7 ------------------------------------ *)
\* C7 as claimed: the output width (height) is the maximum of the input
\* width (height) and, over the repositioned nodes only, x + width/2 + 40
\* (y + height/2 + 40). Stated for forest-shaped layouts, where the
\* repositioned nodes are the jsx nodes.
C7_RepositionedOnly ==
    (Done /\ ForestShaped(layout)) =>
        /\ out.width =
              SetMax({out.nodes[i].x + out.nodes[i].width \div 2 + 40
                        : i \in Placed(layout)}, layout.width)
        /\ out.height =
              SetMax({out.nodes[i].y + out.nodes[i].height \div 2 + 40
                        : i \in Placed(layout)}, layout.height)

\* C7 amended: with at least one jsx node the maximum runs over every node of
\* the output, repositioned or not; with none the canvas is the input's. The
\* canvas never shrinks.
C7_AllNodesBoundingBox ==
    Done =>
        /\ HasJsx(layout) =>
              /\ out.width =
                    SetMax({out.nodes[i].x + out.nodes[i].width \div 2 + 40
                              : i \in 1..Len(out.nodes)}, layout.width)
              /\ out.height =
                    SetMax({out.nodes[i].y + out.nodes[i].height \div 2 + 40
                              : i \in 1..Len(out.nodes)}, layout.height)
        /\ ~HasJsx(layout) =>
              /\ out.width = layout.width
              /\ out.height = layout.height
        /\ out.width >= layout.width
        /\ out.height >= layout.height

\* A node that was not repositioned decides the output width.
C7_Witness ==
    /\ Done
    /\ HasJsx(layout)
    /\ ForestShaped(layout)
    /\ out.width >
          SetMax({out.nodes[i].x + out.nodes[i].width \div 2 + 40
                    : i \in Placed(layout)}, layout.width)

C9_Idempotent ==
    (Done /\ round = 2) => out = first

\* The second call has laid out a tree of depth at least 1 whose result has
\* an edge on a repositioned node.
C9_Witness ==
    /\ Done
    /\ round = 2
    /\ TreeDepth(layout) >= 1
    /\ Len(layout.edges) > 0
    /\ layout.edges[1].to.nodeId \in PlacedIds(layout)

(* ------------------------------- C10 ----------------------------------- *)
\* C10: of two jsx nodes with the same resolved parent, or both roots, the
\* one that comes first in the input node sequence is entered first by the
\* position pass and gets the strictly smaller output y.
C10_SiblingOrder ==
    (Done /\ HasJsx(layout)) =>
        \A i, j \in Placed(layout) :
            (/\ i < j
             /\ \/ TreeRoot(layout, i) /\ TreeRoot(layout, j)
                \/ /\ ~TreeRoot(layout, i)
                   /\ ~TreeRoot(layout, j)
                   /\ layout.nodes[i].jsxParentId = layout.nodes[j].jsxParentId)
            => /\ PosIn(assignOrder, layout.nodes[i].id)
                    < PosIn(assignOrder, layout.nodes[j].id)
               /\ out.nodes[i].y < out.nodes[j].y

\* Two children of one parent that comes after them in the node sequence.
C10_Witness ==
    /\ Done
    /\ HasJsx(layout)
    /\ \E i, j, p \in Placed(layout) :
          /\ i < j
          /\ j < p
          /\ layout.nodes[i].jsxParentId = layout.nodes[p].id
          /\ layout.nodes[j].jsxParentId = layout.nodes[p].id

====
